---- MODULE Spec2Model ----
(***************************************************************************)
(* A model of the SolarScan bill-analysis handler with Pakistan pricing    *)
(* (analyze-bill-with-pakistan-pricing.js): the request handler up to the  *)
(* awaited LLM call, and its continuation, which normalises the parsed     *)
(* fields, sizes a photovoltaic system and answers.                        *)
(*                                                                         *)
(* JavaScript values are records [t, n, d, s]: t is the type tag, n/d the  *)
(* numerator and (positive) denominator of a finite number in lowest       *)
(* terms, s the characters of a string.  Numbers are exact rationals: the  *)
(* model does not reproduce binary floating point rounding, and it leaves  *)
(* out the infinities.  NaN is its own tag; typeof NaN is "number".        *)
(***************************************************************************)
EXTENDS Integers, Sequences, FiniteSets, TLC

\* pc, req, completion, locals and res belong to one invocation of a handler;
\* moduleScope is the object bound to PK_DEFAULTS at module level, which every
\* invocation reads; second is another invocation of the Pakistan-pricing
\* handler in flight at the same time (its own pc, req, completion, locals
\* and res)
VARIABLES pc, req, completion, locals, res, moduleScope, second

vars == <<pc, req, completion, locals, res, moduleScope, second>>

----------------------------------------------------------------------------
(* JavaScript values *)

Undef == [t |-> "undefined", n |-> 0, d |-> 1, s |-> <<>>]
Null == [t |-> "null", n |-> 0, d |-> 1, s |-> <<>>]
NaN == [t |-> "NaN", n |-> 0, d |-> 1, s |-> <<>>]
FunctionObject == [t |-> "function", n |-> 0, d |-> 1, s |-> <<>>]
PlainObject == [t |-> "object", n |-> 0, d |-> 1, s |-> <<>>]
Str(chars) == [t |-> "string", n |-> 0, d |-> 1, s |-> chars]

Abs(i) == IF i < 0 THEN -i ELSE i

RECURSIVE Gcd(_, _)
Gcd(a, b) == IF b = 0 THEN a ELSE Gcd(b, a % b)

\* the number p/q (q # 0), in lowest terms with a positive denominator
Num(p, q) ==
    LET g == Gcd(Abs(p), Abs(q))
        sgn == IF q < 0 THEN -1 ELSE 1
    IN  [t |-> "number", n |-> sgn * (p \div g), d |-> sgn * (q \div g), s |-> <<>>]

IntNum(i) == Num(i, 1)

IsNum(v) == v.t = "number"

\* typeof v: NaN is a number, null is an object
TypeOf(v) ==
    CASE v.t = "NaN" -> "number"
      [] v.t = "null" -> "object"
      [] OTHER -> v.t

\* ToBoolean: undefined, null, NaN, 0 and "" are falsy
Truthy(v) ==
    CASE v.t \in {"undefined", "null", "NaN"} -> FALSE
      [] v.t = "number" -> v.n # 0
      [] v.t = "string" -> Len(v.s) > 0
      [] OTHER -> TRUE

\* a ?? b
Coalesce(a, b) == IF a.t \in {"undefined", "null"} THEN b ELSE a

\* a || b
OrElse(a, b) == IF Truthy(a) THEN a ELSE b

\* ToNumber of the values the handler does arithmetic on: the numbers
\* themselves, null as 0, and NaN for undefined, functions and plain objects
ToNumber(v) ==
    CASE v.t = "number" -> v
      [] v.t = "null" -> IntNum(0)
      [] OTHER -> NaN

\* a * b
Mul(a, b) ==
    LET x == ToNumber(a)
        y == ToNumber(b)
    IN  IF IsNum(x) /\ IsNum(y) THEN Num(x.n * y.n, x.d * y.d) ELSE NaN

\* a / b, for a divisor that is not zero
Div(a, b) ==
    LET x == ToNumber(a)
        y == ToNumber(b)
    IN  IF IsNum(x) /\ IsNum(y) /\ y.n # 0 THEN Num(x.n * y.d, x.d * y.n) ELSE NaN

\* a + b on numbers
Add(a, b) ==
    LET x == ToNumber(a)
        y == ToNumber(b)
    IN  IF IsNum(x) /\ IsNum(y) THEN Num(x.n * y.d + y.n * x.d, x.d * y.d) ELSE NaN

\* a < b and a > b: false as soon as an operand is NaN
Lt(a, b) ==
    LET x == ToNumber(a)
        y == ToNumber(b)
    IN  IsNum(x) /\ IsNum(y) /\ x.n * y.d < y.n * x.d

Gt(a, b) == Lt(b, a)

\* Math.max(a, b) and Math.min(a, b): NaN as soon as an operand is NaN
MathMax(a, b) ==
    LET x == ToNumber(a)
        y == ToNumber(b)
    IN  IF IsNum(x) /\ IsNum(y) THEN (IF Lt(x, y) THEN y ELSE x) ELSE NaN

MathMin(a, b) ==
    LET x == ToNumber(a)
        y == ToNumber(b)
    IN  IF IsNum(x) /\ IsNum(y) THEN (IF Lt(y, x) THEN y ELSE x) ELSE NaN

\* floor of p/q for q > 0 (\div rounds toward minus infinity)
FloorDiv(p, q) == p \div q

\* Math.round(x): the nearest integer, a tie going up
MathRound(x) ==
    LET v == ToNumber(x)
    IN  IF IsNum(v) THEN IntNum(FloorDiv(2 * v.n + v.d, 2 * v.d)) ELSE NaN

RECURSIVE Pow10(_)
Pow10(k) == IF k = 0 THEN 1 ELSE 10 * Pow10(k - 1)

\* Number(x.toFixed(digits)): the nearest multiple of 10^-digits, a tie going
\* away from zero; NaN.toFixed() is "NaN", which reads back as NaN
ToFixedNumber(x, digits) ==
    IF ~IsNum(x) THEN NaN
    ELSE LET m == Pow10(digits)
             a == FloorDiv(2 * Abs(x.n) * m + x.d, 2 * x.d)
         IN  Num((IF x.n < 0 THEN -1 ELSE 1) * a, m)

----------------------------------------------------------------------------
(* Strings are sequences of one-character strings *)

UpperToLower ==
    [c \in {"A", "B", "C", "D", "E", "F", "G", "H", "I", "J", "K", "L", "M",
            "N", "O", "P", "Q", "R", "S", "T", "U", "V", "W", "X", "Y", "Z"} |->
        CASE c = "A" -> "a" [] c = "B" -> "b" [] c = "C" -> "c" [] c = "D" -> "d"
          [] c = "E" -> "e" [] c = "F" -> "f" [] c = "G" -> "g" [] c = "H" -> "h"
          [] c = "I" -> "i" [] c = "J" -> "j" [] c = "K" -> "k" [] c = "L" -> "l"
          [] c = "M" -> "m" [] c = "N" -> "n" [] c = "O" -> "o" [] c = "P" -> "p"
          [] c = "Q" -> "q" [] c = "R" -> "r" [] c = "S" -> "s" [] c = "T" -> "t"
          [] c = "U" -> "u" [] c = "V" -> "v" [] c = "W" -> "w" [] c = "X" -> "x"
          [] c = "Y" -> "y" [] c = "Z" -> "z"]

\* String.prototype.toLowerCase on the characters of a string
ToLowerCase(chars) ==
    [i \in 1..Len(chars) |->
        IF chars[i] \in DOMAIN UpperToLower THEN UpperToLower[chars[i]] ELSE chars[i]]

----------------------------------------------------------------------------
(* Config / market data *)

\* The object literal of lines 6-20
PK_DEFAULTS_Literal ==
    [costPerKw |-> IntNum(180000),
     panelPricePerWatt |-> [low |-> IntNum(24), high |-> IntNum(45)],
     inverterPricePerKw |-> IntNum(25000),
     installationPercent |-> Num(12, 100),
     prodByCityKwhPerKwPerMonth |->
        [key \in {<<"k", "a", "r", "a", "c", "h", "i">>,
                  <<"l", "a", "h", "o", "r", "e">>,
                  <<"i", "s", "l", "a", "m", "a", "b", "a", "d">>,
                  <<"p", "e", "s", "h", "a", "w", "a", "r">>,
                  <<"d", "e", "f", "a", "u", "l", "t">>} |->
            CASE key = <<"k", "a", "r", "a", "c", "h", "i">> -> IntNum(160)
              [] key = <<"l", "a", "h", "o", "r", "e">> -> IntNum(150)
              [] key = <<"i", "s", "l", "a", "m", "a", "b", "a", "d">> -> IntNum(150)
              [] key = <<"p", "e", "s", "h", "a", "w", "a", "r">> -> IntNum(155)
              [] key = <<"d", "e", "f", "a", "u", "l", "t">> -> IntNum(150)],
     emissionKgPerKwh |-> Num(45, 100)]

\* The binding PK_DEFAULTS: whatever the module-level object holds now
PK_DEFAULTS == moduleScope

\* The properties every object literal inherits from Object.prototype, with
\* the kind of value each holds
ObjectPrototype ==
    [key \in {<<"c", "o", "n", "s", "t", "r", "u", "c", "t", "o", "r">>,
              <<"_", "_", "p", "r", "o", "t", "o", "_", "_">>,
              <<"t", "o", "S", "t", "r", "i", "n", "g">>,
              <<"v", "a", "l", "u", "e", "O", "f">>,
              <<"h", "a", "s", "O", "w", "n", "P", "r", "o", "p", "e", "r", "t", "y">>} |->
        IF key = <<"_", "_", "p", "r", "o", "t", "o", "_", "_">>
        THEN PlainObject ELSE FunctionObject]

\* table[key] on an object literal: an own property, else one inherited from
\* Object.prototype, else undefined
GetProperty(table, key) ==
    IF key \in DOMAIN table THEN table[key]
    ELSE IF key \in DOMAIN ObjectPrototype THEN ObjectPrototype[key]
    ELSE Undef

DefaultKey == <<"d", "e", "f", "a", "u", "l", "t">>

----------------------------------------------------------------------------
(* Helper functions *)

\* The result of a call: the value returned, or a TypeError thrown
Returned(v) == [threw |-> FALSE, value |-> v]
Thrown == [threw |-> TRUE, value |-> Undef]

pickProductionForLocation(location) ==
    IF ~Truthy(location)
    THEN Returned(PK_DEFAULTS.prodByCityKwhPerKwPerMonth[DefaultKey])
    ELSE IF location.t # "string"
    THEN Thrown     \* location.toLowerCase is not a function
    ELSE Returned(OrElse(GetProperty(PK_DEFAULTS.prodByCityKwhPerKwPerMonth,
                                     ToLowerCase(location.s)),
                         PK_DEFAULTS.prodByCityKwhPerKwPerMonth[DefaultKey]))

moneyRound(x) == MathRound(x)

safeNum(v) == IF TypeOf(v) = "number" /\ v.t # "NaN" THEN v ELSE Null

----------------------------------------------------------------------------
(* The locals of the handler's continuation, and what it answers *)

BudgetNote == "Budget insufficient for full offset - suggesting partial system."
MissingNote == "Missing unitsKWh or costPerUnit - cannot compute solar recommendation."

NoBreakdown ==
    [present |-> FALSE, panels |-> Undef, inverterAndBalance |-> Undef,
     installation |-> Undef]

\* let recommendation = { suggestedSystemKw: null, ..., notes: [] }: the
\* properties the literal does not name read as undefined
DefaultRecommendation ==
    [suggestedSystemKw |-> Null,
     estMonthlyProductionKwh |-> Undef,
     estMonthlySavings |-> Null,
     approxInstallCost |-> Null,
     costBreakdown |-> NoBreakdown,
     paybackYears |-> Null,
     co2ReductionTonsPerYear |-> Null,
     percentOffset |-> Undef,
     notes |-> <<>>]

\* branch is where the continuation went: "none" before the enrichment,
\* "compute" or "degraded" for the two arms of the if, "threwInLookup" and
\* "threwInPush" for a TypeError caught by the handler's catch clause
NoLocals ==
    [branch |-> "none", unitsKWh |-> Undef, totalCost |-> Undef,
     costPerUnit |-> Undef, loc |-> Undef, prodPerKwPerMonth |-> Undef,
     requiredKw |-> Undef, budgetNum |-> Undef, maxKwByBudget |-> Undef,
     finalKw |-> Undef, rawHardware |-> Undef, estMonthlyProduction |-> Undef]

NoAssumptions == [t |-> "undefined", items |-> <<>>]

NoParsedFields ==
    [present |-> FALSE, unitsKWh |-> Undef, totalCost |-> Undef,
     costPerUnit |-> Undef, billingDate |-> Undef, location |-> Undef]

NoMetadata == [units |-> Undef, cost |-> Undef, costPerUnit |-> Undef]

NoBody ==
    [kind |-> "none", error |-> "", success |-> FALSE,
     parsedFields |-> NoParsedFields, assumptions |-> NoAssumptions,
     recommendation |-> DefaultRecommendation, needsBudget |-> FALSE,
     usedDefaults |-> [costPerKw |-> Undef, prodPerKwPerMonth |-> Undef,
                       emissionKgPerKwh |-> Undef],
     metadata |-> NoMetadata]

ErrorBody(msg) == [NoBody EXCEPT !.kind = "error", !.error = msg]

NoResponse == [cors |-> FALSE, sent |-> FALSE, status |-> 0, body |-> NoBody]

\* res.status(code).json(body) or .end() after the CORS headers were set
Respond(code, body) == [cors |-> TRUE, sent |-> TRUE, status |-> code, body |-> body]

----------------------------------------------------------------------------
(* Field normalisation *)

\* fields && safeNum(fields[name]): undefined when the caller sent no fields
FieldsAnd(fields, name) ==
    IF ~fields.present THEN Undef ELSE safeNum(fields[name])

CanonicalUnitsKWh(pf, fields) ==
    Coalesce(Coalesce(safeNum(pf.unitsKWh), FieldsAnd(fields, "unitsKWh")), Null)

CanonicalTotalCost(pf, fields) ==
    Coalesce(Coalesce(safeNum(pf.totalCost), FieldsAnd(fields, "totalCost")), Null)

CanonicalCostPerUnit(pf, totalCost, unitsKWh) ==
    Coalesce(safeNum(pf.costPerUnit),
             IF Truthy(totalCost) /\ Truthy(unitsKWh)
             THEN Div(totalCost, unitsKWh) ELSE Null)

CanonicalLocation(pf, city) == OrElse(OrElse(pf.location, city), Null)

----------------------------------------------------------------------------
(* Recommendation *)

\* if (unitsKWh && costPerUnit)
ComputeGuard(unitsKWh, costPerUnit) == Truthy(unitsKWh) /\ Truthy(costPerUnit)

BudgetNum(budget) ==
    IF TypeOf(budget) = "number" /\ Gt(budget, IntNum(0)) THEN budget ELSE Null

MaxKwByBudget(budgetNum, costPerKw) ==
    IF Truthy(budgetNum) THEN Div(budgetNum, costPerKw) ELSE Null

BudgetConstrains(budgetNum, maxKwByBudget, requiredKw) ==
    Truthy(budgetNum) /\ Lt(maxKwByBudget, requiredKw)

\* FinalKw without the 0.5 kW floor
FinalKw_NoFloor(budgetNum, maxKwByBudget, requiredKw) ==
    IF BudgetConstrains(budgetNum, maxKwByBudget, requiredKw)
    THEN maxKwByBudget
    ELSE requiredKw

FinalKw(budgetNum, maxKwByBudget, requiredKw) ==
    IF BudgetConstrains(budgetNum, maxKwByBudget, requiredKw)
    THEN MathMax(Num(1, 2), maxKwByBudget)
    ELSE requiredKw

ApproxPanels(rawHardware) == moneyRound(Mul(rawHardware, Num(60, 100)))
ApproxInverter(rawHardware) == moneyRound(Mul(rawHardware, Num(25, 100)))
ApproxInstall(rawHardware) == moneyRound(Mul(rawHardware, Num(15, 100)))

TotalInstallCost(approxPanels, approxInverter, approxInstall) ==
    moneyRound(Add(Add(approxPanels, approxInverter), approxInstall))

EstMonthlySavings(estMonthlyProduction, unitsKWh, costPerUnit) ==
    moneyRound(Mul(MathMin(estMonthlyProduction, unitsKWh), costPerUnit))

\* PaybackYears over monthly savings, the factor 12 left out
PaybackYears_Monthly(totalInstallCost, estMonthlySavings) ==
    IF Gt(estMonthlySavings, IntNum(0))
    THEN ToFixedNumber(Div(totalInstallCost, estMonthlySavings), 2)
    ELSE Null

PaybackYears(totalInstallCost, estMonthlySavings) ==
    IF Gt(estMonthlySavings, IntNum(0))
    THEN ToFixedNumber(Div(totalInstallCost, Mul(estMonthlySavings, IntNum(12))), 2)
    ELSE Null

Co2TonsPerYear(estMonthlyProduction, emissionKgPerKwh) ==
    ToFixedNumber(Div(Mul(Mul(estMonthlyProduction, IntNum(12)), emissionKgPerKwh),
                      IntNum(1000)), 3)

PercentOffset(estMonthlyProduction, unitsKWh) ==
    ToFixedNumber(Mul(Div(estMonthlyProduction, unitsKWh), IntNum(100)), 1)

\* The compute branch: the locals it sets and the recommendation it builds
ComputedLocals(unitsKWh, totalCost, costPerUnit, loc, prodPerKwPerMonth, budget) ==
    LET requiredKw == Div(unitsKWh, prodPerKwPerMonth)
        budgetNum == BudgetNum(budget)
        maxKwByBudget == MaxKwByBudget(budgetNum, PK_DEFAULTS.costPerKw)
        finalKw == FinalKw(budgetNum, maxKwByBudget, requiredKw)
    IN  [branch |-> "compute", unitsKWh |-> unitsKWh, totalCost |-> totalCost,
         costPerUnit |-> costPerUnit, loc |-> loc,
         prodPerKwPerMonth |-> prodPerKwPerMonth, requiredKw |-> requiredKw,
         budgetNum |-> budgetNum, maxKwByBudget |-> maxKwByBudget,
         finalKw |-> finalKw,
         rawHardware |-> Mul(finalKw, PK_DEFAULTS.costPerKw),
         estMonthlyProduction |-> Mul(finalKw, prodPerKwPerMonth)]

ComputedRecommendation(l) ==
    LET approxPanels == ApproxPanels(l.rawHardware)
        approxInverter == ApproxInverter(l.rawHardware)
        approxInstall == ApproxInstall(l.rawHardware)
        totalInstallCost == TotalInstallCost(approxPanels, approxInverter, approxInstall)
        estMonthlySavings ==
            EstMonthlySavings(l.estMonthlyProduction, l.unitsKWh, l.costPerUnit)
    IN  [suggestedSystemKw |-> ToFixedNumber(l.finalKw, 2),
         estMonthlyProductionKwh |-> ToFixedNumber(l.estMonthlyProduction, 1),
         estMonthlySavings |-> estMonthlySavings,
         approxInstallCost |-> totalInstallCost,
         costBreakdown |->
            [present |-> TRUE, panels |-> approxPanels,
             inverterAndBalance |-> approxInverter, installation |-> approxInstall],
         paybackYears |-> PaybackYears(totalInstallCost, estMonthlySavings),
         co2ReductionTonsPerYear |->
            Co2TonsPerYear(l.estMonthlyProduction, PK_DEFAULTS.emissionKgPerKwh),
         percentOffset |-> PercentOffset(l.estMonthlyProduction, l.unitsKWh),
         notes |->
            IF BudgetConstrains(l.budgetNum, l.maxKwByBudget, l.requiredKw)
            THEN <<BudgetNote>> ELSE <<>>]

\* parsed.assumptions = parsed.assumptions || []; parsed.assumptions.push(note)
\* throws when the reply's assumptions is a (non-empty) string
DegradedAssumptions(assumptions) ==
    CASE assumptions.t = "array" ->
            [threw |-> FALSE,
             value |-> [t |-> "array", items |-> Append(assumptions.items, MissingNote)]]
      [] assumptions.t = "string" -> [threw |-> TRUE, value |-> assumptions]
      [] OTHER ->
            [threw |-> FALSE, value |-> [t |-> "array", items |-> <<MissingNote>>]]

\* parsed.assumptions || []
AssumptionsOrEmpty(assumptions) ==
    IF assumptions.t = "undefined" THEN [t |-> "array", items |-> <<>>] ELSE assumptions

\* Lines 84-174: from the parsed reply to the locals and the answer
Enrich(parsed, r) ==
    LET pf == parsed.parsedFields
        unitsKWh == CanonicalUnitsKWh(pf, r.fields)
        totalCost == CanonicalTotalCost(pf, r.fields)
        costPerUnit == CanonicalCostPerUnit(pf, totalCost, unitsKWh)
        loc == CanonicalLocation(pf, r.city)
        picked == pickProductionForLocation(loc)
        normalised ==
            [NoLocals EXCEPT !.unitsKWh = unitsKWh, !.totalCost = totalCost,
                             !.costPerUnit = costPerUnit, !.loc = loc]
        out(rec, assumptions) ==
            [kind |-> "result", error |-> "", success |-> TRUE,
             parsedFields |-> pf,
             assumptions |-> AssumptionsOrEmpty(assumptions),
             recommendation |-> rec,
             needsBudget |-> parsed.needsBudget,
             usedDefaults |->
                [costPerKw |-> PK_DEFAULTS.costPerKw,
                 prodPerKwPerMonth |-> picked.value,
                 emissionKgPerKwh |-> PK_DEFAULTS.emissionKgPerKwh],
             metadata |-> NoMetadata]
    IN  IF picked.threw
        THEN [locals |-> [normalised EXCEPT !.branch = "threwInLookup"],
              res |-> Respond(500, ErrorBody("Server error"))]
        ELSE IF ComputeGuard(unitsKWh, costPerUnit)
        THEN LET l == ComputedLocals(unitsKWh, totalCost, costPerUnit, loc,
                                     picked.value, r.budget)
             IN  [locals |-> l,
                  res |-> Respond(200, out(ComputedRecommendation(l),
                                           parsed.assumptions))]
        ELSE LET pushed == DegradedAssumptions(parsed.assumptions)
                 l == [normalised EXCEPT !.prodPerKwPerMonth = picked.value]
             IN  IF pushed.threw
                 THEN [locals |-> [l EXCEPT !.branch = "threwInPush"],
                       res |-> Respond(500, ErrorBody("Server error"))]
                 ELSE [locals |-> [l EXCEPT !.branch = "degraded"],
                       res |-> Respond(200, out(DefaultRecommendation, pushed.value))]

----------------------------------------------------------------------------
(* The LLM reply *)

\* What JSON.parse makes of the reply's JSON text, as far as the handler
\* reads it: the value's type, its parsedFields, assumptions and budgetRequest
\* truthy is the value's ToBoolean; success is its own "success" property:
\* "absent", "true" or "false"
ParsedNull ==
    [t |-> "null", truthy |-> FALSE, parsedFields |-> NoParsedFields,
     assumptions |-> NoAssumptions, needsBudget |-> FALSE, success |-> "absent"]

\* safeExtractJson(text): null for an empty reply; JSON.parse of the text;
\* failing that JSON.parse of the span from the first brace or bracket to the
\* last; null when neither parses
safeExtractJson(content) ==
    CASE content.raw = "empty" -> ParsedNull
      [] content.raw = "json" -> content.json
      [] content.raw = "wrapped" -> content.json
      [] OTHER -> ParsedNull

\* A check that rejects falsy replies alone
InvalidReply_FalsyOnly(parsed) == ~parsed.truthy

\* !parsed || !parsed.parsedFields
InvalidReply(parsed) == ~parsed.truthy \/ ~parsed.parsedFields.present

----------------------------------------------------------------------------
(* The requests and replies the model draws from *)

MaxUnitsK == 2
MaxBudgetK == 2

Karachi == <<"K", "a", "r", "a", "c", "h", "i">>
KARACHI == <<"K", "A", "R", "A", "C", "H", "I">>
karachi == <<"k", "a", "r", "a", "c", "h", "i">>
Lahore == <<"L", "a", "h", "o", "r", "e">>
Quetta == <<"Q", "u", "e", "t", "t", "a">>
constructor == <<"c", "o", "n", "s", "t", "r", "u", "c", "t", "o", "r">>

NoFields ==
    [present |-> FALSE, unitsKWh |-> Undef, totalCost |-> Undef, costPerUnit |-> Undef]

FieldsSamples_1 ==
    [present |-> TRUE, unitsKWh |-> IntNum(600), totalCost |-> IntNum(18000),
     costPerUnit |-> Undef]

FieldsSamples_2 ==
    [present |-> TRUE, unitsKWh |-> Undef, totalCost |-> Undef,
     costPerUnit |-> IntNum(30)]

FieldsSamples_3 ==
    [present |-> TRUE, unitsKWh |-> Str(<<"6", "0", "0">>),
     totalCost |-> IntNum(-18000), costPerUnit |-> Null]

BudgetSamples ==
    {Undef, IntNum(0), IntNum(-5), Str(<<"3", "0", "0", "0", "0", "0">>), IntNum(1000)}
        \cup {IntNum(300000 * k) : k \in 1..MaxBudgetK}

CitySamples == {Undef, Str(Lahore), IntNum(42)}

\* endpoint names the handler the request is routed to; units and cost are
\* read by the solar-suggestions handler alone
NoRequest ==
    [endpoint |-> "", method |-> "", hasBody |-> FALSE, text |-> Undef,
     fields |-> NoFields, budget |-> Undef, city |-> Undef, units |-> Undef,
     cost |-> Undef]

\* The text and fields of a body: neither, text alone, fields alone, both
BodySamples ==
    {<<Undef, f>> : f \in {FieldsSamples_1, FieldsSamples_2, FieldsSamples_3}}
        \cup {<<Undef, NoFields>>, <<Str(<<"b", "i", "l", "l">>), NoFields>>,
              <<Str(<<"b", "i", "l", "l">>), FieldsSamples_1>>}

\* const { text, fields, budget, city } = req.body || {}
Requests ==
    {[NoRequest EXCEPT !.endpoint = "pakistan", !.method = m] :
        m \in {"OPTIONS", "GET", "PUT", "POST"}}
        \cup
    {[NoRequest EXCEPT !.endpoint = "pakistan", !.method = "POST",
                       !.hasBody = TRUE, !.text = tf[1], !.fields = tf[2],
                       !.budget = b, !.city = c] :
        tf \in BodySamples, b \in BudgetSamples, c \in CitySamples}

UnitsSamples ==
    {Null, IntNum(0), IntNum(-600), Str(<<"6", "0", "0">>), IntNum(30)}
        \cup {IntNum(300 * k) : k \in 1..MaxUnitsK}

LocationSamples ==
    {Null, Str(<<>>), Str(Karachi), Str(KARACHI), Str(karachi), Str(Quetta),
     Str(constructor), IntNum(42)}

\* The totalCost and costPerUnit of a reply's parsedFields
CostSamples ==
    {<<Null, Null>>, <<Null, IntNum(30)>>, <<Null, IntNum(-30)>>,
     <<IntNum(0), Null>>, <<IntNum(18000), Null>>, <<IntNum(18000), IntNum(25)>>}

ParsedFieldsSamples ==
    {[present |-> TRUE, unitsKWh |-> u, totalCost |-> c[1], costPerUnit |-> c[2],
      billingDate |-> Null, location |-> l] :
        u \in UnitsSamples, c \in CostSamples, l \in LocationSamples}

AssumptionsSamples ==
    {NoAssumptions,
     [t |-> "array", items |-> <<"Tariff assumed residential.">>],
     [t |-> "string", items |-> <<>>]}

NoCompletion == [failed |-> FALSE, raw |-> "none", json |-> ParsedNull]

\* completion.choices?.[0]?.message?.content || '': no content, text that
\* holds no JSON, JSON text, and JSON text wrapped in prose (a markdown block)
Completions ==
    {[failed |-> FALSE, raw |-> k, json |-> ParsedNull] : k \in {"empty", "garbage"}}
        \cup
    {[failed |-> FALSE, raw |-> "json",
      json |-> [ParsedNull EXCEPT !.t = k, !.truthy = TRUE]] :
        k \in {"number", "object"}}
        \cup
    {[failed |-> FALSE, raw |-> "json",
      json |-> [t |-> "object", truthy |-> TRUE, parsedFields |-> pf,
                assumptions |-> a, needsBudget |-> FALSE, success |-> "absent"]] :
        pf \in ParsedFieldsSamples, a \in AssumptionsSamples}
        \cup
    {[failed |-> FALSE, raw |-> "wrapped",
      json |-> [t |-> "object", truthy |-> TRUE,
                parsedFields |->
                    [present |-> TRUE, unitsKWh |-> IntNum(600),
                     totalCost |-> IntNum(18000), costPerUnit |-> IntNum(30),
                     billingDate |-> Null, location |-> Str(karachi)],
                assumptions |-> NoAssumptions, needsBudget |-> TRUE,
                success |-> "absent"]]}

----------------------------------------------------------------------------
(* The handler *)

\* An invocation that has not started
NoInvocation ==
    [pc |-> "idle", req |-> NoRequest, completion |-> NoCompletion,
     locals |-> NoLocals, res |-> NoResponse]

Init ==
    /\ pc = "idle"
    /\ req = NoRequest
    /\ completion = NoCompletion
    /\ locals = NoLocals
    /\ res = NoResponse
    /\ moduleScope = PK_DEFAULTS_Literal
    /\ second = NoInvocation

\* Lines 38-75: where the handler stands and what it has answered once it
\* has run up to the awaited call
StartOutcome(r) ==
    IF r.method = "OPTIONS"
    THEN [pc |-> "done", res |-> Respond(200, [NoBody EXCEPT !.kind = "empty"])]
    ELSE IF r.method # "POST"
    THEN [pc |-> "done", res |-> Respond(405, ErrorBody("Method not allowed"))]
    ELSE IF ~Truthy(r.text) /\ ~r.fields.present
    THEN [pc |-> "done", res |-> Respond(400, ErrorBody("Provide bill text or fields"))]
    ELSE [pc |-> "awaitLLM", res |-> [NoResponse EXCEPT !.cors = TRUE]]

\* Lines 77-178: the response and the locals once the call has resolved with
\* completion c for request r
ResumeOutcome(r, c, locs) ==
    LET parsed == safeExtractJson(c)
    IN  IF InvalidReply(parsed)
        THEN [locals |-> locs,
              res |-> Respond(502, ErrorBody("AI returned invalid JSON"))]
        ELSE Enrich(parsed, r)

\* A handler that remembers the last yield it looked up as the default
ModuleStateAfter_RemembersYield(scope, locs) ==
    IF locs.branch = "compute" /\ IsNum(locs.prodPerKwPerMonth)
    THEN [scope EXCEPT !.prodByCityKwhPerKwPerMonth[DefaultKey] = locs.prodPerKwPerMonth]
    ELSE scope

\* Lines 38-179 assign to no module-level binding and to no property of
\* PK_DEFAULTS: the module-level object after an invocation is the one before
ModuleStateAfter(scope, locs) == scope

\* Lines 38-66: the CORS headers, the method checks, the 400 check and the
\* call of the LLM, on which the handler awaits
HandlerStart(r) ==
    /\ pc = "idle"
    /\ req' = r
    /\ res' = StartOutcome(r).res
    /\ pc' = StartOutcome(r).pc
    /\ UNCHANGED <<completion, locals, moduleScope, second>>

\* The awaited call rejects (network, credentials, rate limit): the catch
\* clause answers 500
LLMRejects ==
    /\ pc = "awaitLLM"
    /\ completion' = [NoCompletion EXCEPT !.failed = TRUE]
    /\ res' = Respond(500, ErrorBody(IF req.endpoint = "suggestions"
                                      THEN "Failed to generate suggestions"
                                      ELSE "Server error"))
    /\ pc' = "done"
    /\ UNCHANGED <<req, locals, moduleScope, second>>

\* Lines 77-178: the call resolves with completion c
HandlerResume(c) ==
    /\ pc = "awaitLLM"
    /\ req.endpoint = "pakistan"
    /\ completion' = c
    /\ LET o == ResumeOutcome(req, c, locals)
       IN  /\ res' = o.res
           /\ locals' = o.locals
           /\ moduleScope' = ModuleStateAfter(moduleScope, o.locals)
    /\ pc' = "done"
    /\ UNCHANGED <<req, second>>

-----------------------------------------------------------------------------
(* A second invocation of the Pakistan-pricing handler, whose steps interleave
   with the first one's at the awaited call *)

SecondStart(r) ==
    /\ second.pc = "idle"
    /\ second' = [second EXCEPT !.req = r,
                                !.res = StartOutcome(r).res,
                                !.pc = StartOutcome(r).pc]
    /\ UNCHANGED <<pc, req, completion, locals, res, moduleScope>>

SecondRejects ==
    /\ second.pc = "awaitLLM"
    /\ second' = [second EXCEPT !.completion = [NoCompletion EXCEPT !.failed = TRUE],
                                !.res = Respond(500, ErrorBody("Server error")),
                                !.pc = "done"]
    /\ UNCHANGED <<pc, req, completion, locals, res, moduleScope>>

SecondResume(c) ==
    /\ second.pc = "awaitLLM"
    /\ LET o == ResumeOutcome(second.req, c, second.locals)
       IN  /\ second' = [second EXCEPT !.completion = c,
                                       !.res = o.res,
                                       !.locals = o.locals,
                                       !.pc = "done"]
           /\ moduleScope' = ModuleStateAfter(moduleScope, o.locals)
    /\ UNCHANGED <<pc, req, completion, locals, res>>

SecondNext ==
    /\ second.pc = "done"
    /\ second' = NoInvocation
    /\ UNCHANGED <<pc, req, completion, locals, res, moduleScope>>

-----------------------------------------------------------------------------
(* The generic bill-analysis handler of api/analyze-bill.js *)

\* renderDemoPage(): the HTML page served on GET
DemoPage == [NoBody EXCEPT !.kind = "html"]

\* { success: true, ...json }: the spread copies json's own enumerable
\* properties after success, so a "success" property of json replaces it
SpreadOverSuccess(json) ==
    [NoBody EXCEPT !.kind = "result",
                   !.success = (json.success # "false"),
                   !.parsedFields = json.parsedFields,
                   !.assumptions = json.assumptions,
                   !.needsBudget = json.needsBudget]

AnalyzeRequests ==
    {[NoRequest EXCEPT !.endpoint = "analyze", !.method = m] :
        m \in {"OPTIONS", "GET", "PUT", "POST"}}
        \cup
    {[NoRequest EXCEPT !.endpoint = "analyze", !.method = "POST",
                       !.hasBody = TRUE, !.text = tf[1], !.fields = tf[2],
                       !.budget = b] :
        tf \in BodySamples, b \in {Undef, IntNum(300000)}}

\* Replies: no text, text that is not JSON, and the JSON texts of null, 0,
\* 42, a string, an array, and objects without and with a "success" key
AnalyzeCompletions ==
    {[failed |-> FALSE, raw |-> k, json |-> ParsedNull] : k \in {"empty", "garbage"}}
        \cup
    {[failed |-> FALSE, raw |-> "json", json |-> ParsedNull]}
        \cup
    {[failed |-> FALSE, raw |-> "json",
      json |-> [ParsedNull EXCEPT !.t = "number"]]}
        \cup
    {[failed |-> FALSE, raw |-> "json",
      json |-> [ParsedNull EXCEPT !.t = k, !.truthy = TRUE]] :
        k \in {"number", "string", "array"}}
        \cup
    {[failed |-> FALSE, raw |-> w,
      json |-> [ParsedNull EXCEPT !.t = "object", !.truthy = TRUE,
                                  !.success = sc]] :
        w \in {"json", "wrapped"}, sc \in {"absent", "true", "false"}}

\* Lines 5-38: headers, method dispatch and input validation up to the await
AnalyzeStart(r) ==
    /\ pc = "idle"
    /\ req' = r
    /\ IF r.method = "OPTIONS"
       THEN /\ res' = Respond(200, [NoBody EXCEPT !.kind = "empty"])
            /\ pc' = "done"
       ELSE IF r.method = "GET"
       THEN /\ res' = Respond(200, DemoPage)
            /\ pc' = "done"
       ELSE IF r.method # "POST"
       THEN /\ res' = Respond(405, ErrorBody("Method not allowed"))
            /\ pc' = "done"
       ELSE IF ~Truthy(r.text) /\ ~r.fields.present
       THEN /\ res' = Respond(400, ErrorBody("Provide bill text or fields"))
            /\ pc' = "done"
       ELSE /\ res' = [NoResponse EXCEPT !.cors = TRUE]
            /\ pc' = "awaitLLM"
    /\ UNCHANGED <<completion, locals, moduleScope, second>>

\* Lines 56-62: the call resolves with completion c
AnalyzeResume(c) ==
    /\ pc = "awaitLLM"
    /\ req.endpoint = "analyze"
    /\ completion' = c
    /\ LET json == safeExtractJson(c)
       IN  IF ~json.truthy
           THEN res' = Respond(502, ErrorBody("AI returned invalid JSON"))
           ELSE res' = Respond(200, SpreadOverSuccess(json))
    /\ pc' = "done"
    /\ UNCHANGED <<req, locals, moduleScope, second>>

-----------------------------------------------------------------------------
(* The solar-suggestions handler *)

\* Number.prototype.toFixed(digits): a string, the decimal numeral of the
\* rounded value ("NaN" for NaN)
ToFixedString(x, digits) ==
    LET r == ToFixedNumber(x, digits)
    IN  IF r.t = "NaN"
        THEN [t |-> "numeral", n |-> 0, d |-> 1, s |-> <<"N", "a", "N">>]
        ELSE [t |-> "numeral", n |-> r.n, d |-> r.d, s |-> <<>>]

UnitsCostSamples ==
    {<<Undef, Undef>>, <<IntNum(450), Undef>>, <<Undef, IntNum(54)>>,
     <<IntNum(0), IntNum(54)>>, <<IntNum(450), IntNum(0)>>,
     <<Null, IntNum(54)>>, <<IntNum(450), IntNum(54)>>,
     <<IntNum(7), IntNum(1)>>, <<IntNum(-450), IntNum(54)>>,
     <<IntNum(3), IntNum(2)>>}

SuggestionRequests ==
    {[NoRequest EXCEPT !.endpoint = "suggestions", !.method = m] :
        m \in {"OPTIONS", "GET", "POST"}}
        \cup
    {[NoRequest EXCEPT !.endpoint = "suggestions", !.method = "POST",
                       !.hasBody = TRUE, !.units = uc[1], !.cost = uc[2]] :
        uc \in UnitsCostSamples}

\* Replies: content text present or missing
SuggestionCompletions ==
    {[failed |-> FALSE, raw |-> k, json |-> ParsedNull] : k \in {"empty", "garbage"}}

\* Lines 252-320: headers, method dispatch, destructuring of req.body and
\* validation up to the await; destructuring undefined throws a TypeError
SuggestionsStart(r) ==
    /\ pc = "idle"
    /\ req' = r
    /\ IF r.method = "OPTIONS"
       THEN /\ res' = Respond(200, [NoBody EXCEPT !.kind = "empty"])
            /\ pc' = "done"
       ELSE IF r.method # "POST"
       THEN /\ res' = Respond(405, ErrorBody("Method not allowed"))
            /\ pc' = "done"
       ELSE IF ~r.hasBody
       THEN /\ res' = Respond(500, ErrorBody("Failed to generate suggestions"))
            /\ pc' = "done"
       ELSE IF ~Truthy(r.units) \/ ~Truthy(r.cost)
       THEN /\ res' = Respond(400, ErrorBody("Missing required fields: units and cost are required"))
            /\ pc' = "done"
       ELSE /\ res' = [NoResponse EXCEPT !.cors = TRUE]
            /\ pc' = "awaitLLM"
    /\ UNCHANGED <<completion, locals, moduleScope, second>>

\* Lines 322-335: the call resolves with completion c
SuggestionsResume(c) ==
    /\ pc = "awaitLLM"
    /\ req.endpoint = "suggestions"
    /\ completion' = c
    /\ LET costPerUnit == Div(req.cost, req.units)
       IN  res' = Respond(200,
                [NoBody EXCEPT !.kind = "suggestions", !.success = TRUE,
                               !.metadata = [units |-> req.units,
                                             cost |-> req.cost,
                                             costPerUnit |-> ToFixedString(costPerUnit, 4)]])
    /\ pc' = "done"
    /\ UNCHANGED <<req, locals, moduleScope, second>>

\* The invocation is over; the next request starts from fresh locals
NextRequest ==
    /\ pc = "done"
    /\ pc' = "idle"
    /\ req' = NoRequest
    /\ completion' = NoCompletion
    /\ locals' = NoLocals
    /\ res' = NoResponse
    /\ UNCHANGED <<moduleScope, second>>

Next ==
    \/ \E r \in Requests : HandlerStart(r)
    \/ LLMRejects
    \/ \E c \in Completions : HandlerResume(c)
    \/ \E r \in AnalyzeRequests : AnalyzeStart(r)
    \/ \E c \in AnalyzeCompletions : AnalyzeResume(c)
    \/ \E r \in SuggestionRequests : SuggestionsStart(r)
    \/ \E c \in SuggestionCompletions : SuggestionsResume(c)
    \/ NextRequest

Spec == Init /\ [][Next]_vars

\* Two invocations of the Pakistan-pricing handler in flight
ConcurrentRequests ==
    {[NoRequest EXCEPT !.endpoint = "pakistan", !.method = m] : m \in {"GET", "POST"}}
        \cup
    {[NoRequest EXCEPT !.endpoint = "pakistan", !.method = "POST",
                       !.hasBody = TRUE, !.text = Str(<<"b", "i", "l", "l">>),
                       !.budget = b, !.city = c] :
        b \in {Undef, IntNum(300000)}, c \in {Undef, Str(Lahore)}}

ConcurrentCompletions ==
    {[failed |-> FALSE, raw |-> "garbage", json |-> ParsedNull]}
        \cup
    {[failed |-> FALSE, raw |-> "json",
      json |-> [t |-> "object", truthy |-> TRUE,
                parsedFields |->
                    [present |-> TRUE, unitsKWh |-> IntNum(600),
                     totalCost |-> Null, costPerUnit |-> IntNum(30),
                     billingDate |-> Null, location |-> l],
                assumptions |-> a, needsBudget |-> FALSE, success |-> "absent"]] :
        l \in {Null, Str(karachi), Str(constructor), IntNum(42)},
        a \in {NoAssumptions, [t |-> "string", items |-> <<>>]}}

NextConcurrent ==
    \/ \E r \in ConcurrentRequests : HandlerStart(r)
    \/ LLMRejects
    \/ \E c \in ConcurrentCompletions : HandlerResume(c)
    \/ NextRequest
    \/ \E r \in ConcurrentRequests : SecondStart(r)
    \/ SecondRejects
    \/ \E c \in ConcurrentCompletions : SecondResume(c)
    \/ SecondNext

SpecConcurrent == Init /\ [][NextConcurrent]_vars

----------------------------------------------------------------------------
(* Vocabulary of the properties *)

\* The continuation got past the 502 check and ran the enrichment
Enriched == pc = "done" /\ locals.branch # "none"

Computed == pc = "done" /\ locals.branch = "compute"

\* x === y on numbers: NaN equals nothing
NumEq(x, y) == IsNum(x) /\ IsNum(y) /\ x = y

Positive(x) == IsNum(x) /\ x.n > 0
Negative(x) == IsNum(x) /\ x.n < 0
NonPositive(x) == IsNum(x) /\ x.n <= 0

\* x >= y on numbers
Ge(x, y) == IsNum(x) /\ IsNum(y) /\ ~Lt(x, y)

\* |x - y| <= k on numbers
Within(x, y, k) ==
    /\ IsNum(x) /\ IsNum(y)
    /\ ~Lt(IntNum(k), Add(x, Mul(y, IntNum(-1))))
    /\ ~Lt(IntNum(k), Add(y, Mul(x, IntNum(-1))))

Contains(notes, note) == \E i \in 1..Len(notes) : notes[i] = note

\* A budget that is zero, negative or not a number
NoBudgetSupplied(budget) == ~(budget.t = "number" /\ budget.n > 0)

Recommendation == res.body.recommendation

\* A field that was not computed: null, or left out of the recommendation
NotComputed(v) == v.t \in {"null", "undefined"}

NothingComputed(rec) ==
    /\ NotComputed(rec.suggestedSystemKw)
    /\ NotComputed(rec.estMonthlyProductionKwh)
    /\ NotComputed(rec.estMonthlySavings)
    /\ NotComputed(rec.approxInstallCost)
    /\ ~rec.costBreakdown.present
    /\ NotComputed(rec.paybackYears)
    /\ NotComputed(rec.co2ReductionTonsPerYear)
    /\ NotComputed(rec.percentOffset)

\* A valid number: of type number and not NaN
ValidNumber(v) == v.t = "number"

\* The parsedFields of the reply the continuation read
ReplyFields == completion.json.parsedFields

\* Every field of the recommendation other than notes is null
AllFieldsNull(rec) ==
    /\ rec.suggestedSystemKw = Null
    /\ rec.estMonthlyProductionKwh = Null
    /\ rec.estMonthlySavings = Null
    /\ rec.approxInstallCost = Null
    /\ ~rec.costBreakdown.present
    /\ rec.paybackYears = Null
    /\ rec.co2ReductionTonsPerYear = Null
    /\ rec.percentOffset = Null

----------------------------------------------------------------------------
(* Properties *)

\* C1: with unitsKWh > 0, costPerUnit > 0, any location and no budget (zero,
\* negative or not a number), the handler sizes the system at
\* unitsKWh / prodPerKwPerMonth, adds no budget note and reports
\* percentOffset 100.0.
C1_NoBudgetFullOffset ==
    (/\ Enriched
     /\ Positive(locals.unitsKWh) /\ Positive(locals.costPerUnit)
     /\ NoBudgetSupplied(req.budget))
        => /\ Computed
           /\ NumEq(locals.finalKw, Div(locals.unitsKWh, locals.prodPerKwPerMonth))
           /\ ~Contains(Recommendation.notes, BudgetNote)
           /\ NumEq(Recommendation.percentOffset, IntNum(100))

\* C2: in the compute branch, a positive numeric budget with
\* budget / costPerKw < requiredKw gives finalKw = max(0.5, budget / costPerKw),
\* never below 0.5, and the budget note; a budget with
\* budget / costPerKw >= requiredKw gives finalKw = requiredKw and no note.
C2_BudgetSizing ==
    Computed =>
        LET byBudget == Div(req.budget, PK_DEFAULTS.costPerKw)
            requiredKw == Div(locals.unitsKWh, locals.prodPerKwPerMonth)
        IN  /\ (Positive(req.budget) /\ Lt(byBudget, requiredKw))
                => /\ NumEq(locals.finalKw, MathMax(Num(1, 2), byBudget))
                   /\ Ge(locals.finalKw, Num(1, 2))
                   /\ Contains(Recommendation.notes, BudgetNote)
            /\ Ge(byBudget, requiredKw)
                => /\ NumEq(locals.finalKw, requiredKw)
                   /\ ~Contains(Recommendation.notes, BudgetNote)

\* C2 witness: a budget of 1000 buys less than 0.5 kW and less than the
\* requirement, and the size is floored at 0.5 kW with the note added.
C2_Witness ==
    /\ Computed
    /\ Positive(req.budget)
    /\ Lt(Div(req.budget, PK_DEFAULTS.costPerKw), Num(1, 2))
    /\ Lt(Div(req.budget, PK_DEFAULTS.costPerKw), locals.requiredKw)
    /\ locals.finalKw = Num(1, 2)
    /\ Contains(Recommendation.notes, BudgetNote)

\* C3: when the canonical unitsKWh is null or 0 the handler answers 200 with
\* every recommendation field null and an explanatory note in the
\* recommendation's notes; nothing is thrown.
C3_MissingUnitsDegrades ==
    (Enriched /\ ~Truthy(locals.unitsKWh))
        => /\ res.status = 200
           /\ AllFieldsNull(Recommendation)
           /\ Contains(Recommendation.notes, MissingNote)

\* C4: unitsKWh <= 0 or costPerUnit <= 0 takes the degraded path, where no
\* recommendation value is computed, and no negative size, cost or savings
\* is ever returned.
C4_NonPositiveDegrades ==
    /\ (Enriched /\ (NonPositive(locals.unitsKWh) \/ NonPositive(locals.costPerUnit)))
        => /\ locals.branch # "compute"
           /\ NothingComputed(Recommendation)
    /\ (pc = "done" /\ res.status = 200)
        => /\ ~Negative(Recommendation.suggestedSystemKw)
           /\ ~Negative(Recommendation.approxInstallCost)
           /\ ~Negative(Recommendation.estMonthlySavings)

\* C5: in every computed recommendation approxInstallCost is the sum of the
\* three cost components, and within 3 currency units of finalKw * costPerKw.
C5_CostBreakdownSums ==
    Computed =>
        LET b == Recommendation.costBreakdown
            sum == Add(Add(b.panels, b.inverterAndBalance), b.installation)
        IN  /\ b.present
            /\ NumEq(Recommendation.approxInstallCost, sum)
            /\ Within(sum, Mul(locals.finalKw, PK_DEFAULTS.costPerKw), 3)

\* C6: in every computed recommendation
\* estMonthlySavings <= round(unitsKWh * costPerUnit).
C6_SavingsCapped ==
    Computed =>
        Ge(MathRound(Mul(locals.unitsKWh, locals.costPerUnit)),
           Recommendation.estMonthlySavings)

\* C7: every location resolves to a number of the table: the lookup does not
\* throw, strings that differ only in letter case get the same yield, and a
\* string whose lowercase form is no configured city, null and the empty
\* string get the default yield, 150.
C7_LookupResolves ==
    Enriched =>
        LET table == PK_DEFAULTS.prodByCityKwhPerKwPerMonth
            loc == locals.loc
        IN  /\ locals.branch # "threwInLookup"
            /\ IsNum(locals.prodPerKwPerMonth)
            /\ ~Truthy(loc) => locals.prodPerKwPerMonth = IntNum(150)
            /\ loc.t = "string" =>
                /\ ToLowerCase(loc.s) \in DOMAIN table
                    => locals.prodPerKwPerMonth = table[ToLowerCase(loc.s)]
                /\ ToLowerCase(loc.s) \notin DOMAIN table
                    => locals.prodPerKwPerMonth = IntNum(150)

\* C8: unitsKWh and totalCost are the parsed value when it is a valid number,
\* else the caller's value of the same field, else null; costPerUnit is the
\* parsed value when valid and otherwise the caller's fields.costPerUnit when
\* that is valid; the location is the parsed one, else the city, else null.
C8_FallbackPrecedence ==
    Enriched =>
        LET pf == ReplyFields
            f == req.fields
            Expected(name) ==
                IF ValidNumber(pf[name]) THEN pf[name]
                ELSE IF f.present /\ ValidNumber(f[name]) THEN f[name]
                ELSE Null
        IN  /\ locals.unitsKWh = Expected("unitsKWh")
            /\ locals.totalCost = Expected("totalCost")
            /\ ValidNumber(pf.costPerUnit) => locals.costPerUnit = pf.costPerUnit
            /\ (~ValidNumber(pf.costPerUnit) /\ f.present /\ ValidNumber(f.costPerUnit))
                => locals.costPerUnit = f.costPerUnit
            /\ locals.loc = (IF Truthy(pf.location) THEN pf.location
                             ELSE IF Truthy(req.city) THEN req.city ELSE Null)

\* C9: the canonical costPerUnit is never negative; with no costPerUnit given
\* it is totalCost / unitsKWh when both are present and unitsKWh > 0, and
\* null when an operand is missing or unitsKWh is zero.
C9_CostPerUnitDerivation ==
    Enriched =>
        /\ ~Negative(locals.costPerUnit)
        /\ (~ValidNumber(ReplyFields.costPerUnit)
            /\ ~(req.fields.present /\ ValidNumber(req.fields.costPerUnit)))
            => /\ (ValidNumber(locals.totalCost) /\ Positive(locals.unitsKWh))
                    => NumEq(locals.costPerUnit,
                             Div(locals.totalCost, locals.unitsKWh))
               /\ (~ValidNumber(locals.totalCost) \/ ~ValidNumber(locals.unitsKWh)
                   \/ locals.unitsKWh = IntNum(0))
                    => locals.costPerUnit = Null

\* C10: the normalisation never throws: a value of the wrong type (a location
\* or city that is no string, a string in a numeric field) counts as absent
\* (null), and no TypeError from it sends the request to the catch clause.
C10_NormalizerNeverThrows ==
    Enriched =>
        /\ locals.branch # "threwInLookup"
        /\ locals.unitsKWh.t \in {"number", "null"}
        /\ locals.totalCost.t \in {"number", "null"}
        /\ locals.costPerUnit.t \in {"number", "null"}
        /\ locals.loc.t \in {"string", "null"}

\* C11: unitsKWh 600, costPerUnit 30, location "karachi" and no budget give
\* 3.75 kW, 600 kWh a month, savings 18000, install cost 675000 split
\* 405000 / 168750 / 101250, payback 3.13 years, 3.24 t CO2 a year and
\* percentOffset 100.0.
C11_KarachiExample ==
    (/\ Computed
     /\ locals.unitsKWh = IntNum(600) /\ locals.costPerUnit = IntNum(30)
     /\ locals.loc = Str(karachi)
     /\ NoBudgetSupplied(req.budget))
        => /\ Recommendation.suggestedSystemKw = Num(375, 100)
           /\ Recommendation.estMonthlyProductionKwh = IntNum(600)
           /\ Recommendation.estMonthlySavings = IntNum(18000)
           /\ Recommendation.approxInstallCost = IntNum(675000)
           /\ Recommendation.costBreakdown =
                [present |-> TRUE, panels |-> IntNum(405000),
                 inverterAndBalance |-> IntNum(168750),
                 installation |-> IntNum(101250)]
           /\ Recommendation.paybackYears = Num(313, 100)
           /\ Recommendation.co2ReductionTonsPerYear = Num(324, 100)
           /\ Recommendation.percentOffset = IntNum(100)

\* C11 witness: the handler answered the example's inputs, with the costPerUnit
\* given by the reply and no budget in the body.
C11_Witness ==
    /\ Computed
    /\ locals.unitsKWh = IntNum(600) /\ locals.costPerUnit = IntNum(30)
    /\ locals.loc = Str(karachi)
    /\ req.budget = Undef
    /\ res.status = 200
    /\ Recommendation.paybackYears = Num(313, 100)

\* C15: in every computed recommendation paybackYears is null exactly when
\* estMonthlySavings is not greater than 0, otherwise it is
\* approxInstallCost / (estMonthlySavings * 12) rounded to 2 decimal places,
\* and it is never negative or NaN.
C15_PaybackYears ==
    Computed =>
        LET savings == Recommendation.estMonthlySavings
            payback == Recommendation.paybackYears
        IN  /\ (payback = Null) <=> ~Positive(savings)
            /\ Positive(savings) =>
                NumEq(payback,
                      ToFixedNumber(Div(Recommendation.approxInstallCost,
                                        Mul(savings, IntNum(12))), 2))
            /\ ~Negative(payback)
            /\ payback.t # "NaN"

\* C16: percentOffset exceeds 100 only when a budget constrained the sizing
\* and the 0.5 kW floor raised the size above a requiredKw below 0.5; when
\* the budget constrains and buys at least 0.5 kW it is below 100; with no
\* budget it is exactly 100.0.
C16_PercentOffset ==
    Computed =>
        LET byBudget == Div(req.budget, PK_DEFAULTS.costPerKw)
            constrained == Positive(req.budget) /\ Lt(byBudget, locals.requiredKw)
            offset == Recommendation.percentOffset
        IN  /\ Gt(offset, IntNum(100))
                => (constrained /\ Lt(locals.requiredKw, Num(1, 2)))
            /\ (constrained /\ Ge(byBudget, Num(1, 2)))
                => Lt(offset, IntNum(100))
            /\ NoBudgetSupplied(req.budget) => NumEq(offset, IntNum(100))


----------------------------------------------------------------------------
(* Properties of the HTTP layer *)

\* The awaited call was made and has settled
LLMCalled == completion # NoCompletion

\* Something was thrown inside the try block: the awaited call rejected, or
\* the enrichment threw
Threw == completion.failed \/ locals.branch \in {"threwInLookup", "threwInPush"}

NoTextNoFields == ~Truthy(req.text) /\ ~req.fields.present

\* The value the reply's text holds, null when it holds none
ReplyValue ==
    IF completion.raw \in {"json", "wrapped"} THEN completion.json ELSE ParsedNull

\* C12: every request to a bill-analysis handler receives exactly one
\* response, its status fixed by the first matching case: OPTIONS -> 200 with
\* empty body; GET -> the demo page; any other non-POST method -> 405; POST
\* with neither text nor fields -> 400; a reply that cannot be parsed as JSON
\* -> 502; anything thrown, a failed LLM call included -> 500; otherwise 200.
\* Every response carries the CORS headers, and the LLM is not called for a
\* request answered on OPTIONS, GET, 405 or 400.
C12_StatusOrder ==
    /\ pc # "done" => ~res.sent
    /\ (pc = "done" /\ req.endpoint \in {"pakistan", "analyze"})
        => /\ res.sent /\ res.cors
           /\ IF req.method = "OPTIONS"
              THEN res.status = 200 /\ res.body.kind = "empty" /\ ~LLMCalled
              ELSE IF req.method = "GET"
              THEN res.status = 200 /\ res.body.kind = "html" /\ ~LLMCalled
              ELSE IF req.method # "POST"
              THEN res.status = 405 /\ ~LLMCalled
              ELSE IF NoTextNoFields
              THEN res.status = 400 /\ ~LLMCalled
              ELSE IF ~completion.failed /\ completion.raw \notin {"json", "wrapped"}
              THEN res.status = 502
              ELSE IF Threw
              THEN res.status = 500
              ELSE res.status = 200

\* C12, amended: as C12, but GET gets the demo page from api/analyze-bill.js
\* and 405 from the Pakistan-pricing handler, and 502 answers every reply
\* that yields no usable value: no JSON, a falsy JSON value or, in the
\* Pakistan-pricing handler, a value without parsedFields.
C12_StatusOrderByHandler ==
    /\ pc # "done" => ~res.sent
    /\ (pc = "done" /\ req.endpoint \in {"pakistan", "analyze"})
        => /\ res.sent /\ res.cors
           /\ IF req.method = "OPTIONS"
              THEN res.status = 200 /\ res.body.kind = "empty" /\ ~LLMCalled
              ELSE IF req.method = "GET" /\ req.endpoint = "analyze"
              THEN res.status = 200 /\ res.body.kind = "html" /\ ~LLMCalled
              ELSE IF req.method # "POST"
              THEN res.status = 405 /\ ~LLMCalled
              ELSE IF NoTextNoFields
              THEN res.status = 400 /\ ~LLMCalled
              ELSE IF completion.failed
              THEN res.status = 500
              ELSE IF \/ ~ReplyValue.truthy
                      \/ req.endpoint = "pakistan" /\ ~ReplyValue.parsedFields.present
              THEN res.status = 502
              ELSE IF Threw
              THEN res.status = 500
              ELSE res.status = 200

\* C12 witness: the Pakistan-pricing handler answers 502 to a reply that is
\* JSON but holds no parsedFields.
C12_Witness ==
    /\ pc = "done"
    /\ req.endpoint = "pakistan"
    /\ completion.raw = "json"
    /\ completion.json.truthy
    /\ ~completion.json.parsedFields.present
    /\ res.sent /\ res.cors
    /\ res.status = 502

\* C13: in the solar-suggestions handler every POST that lacks units or cost,
\* or has no body, is answered 400 with the "Missing required fields" error
\* before the LLM is called, so cost / units is never evaluated with units
\* absent or zero; every 200 response has success true and
\* metadata.costPerUnit equal to cost / units to 4 decimal places.
C13_RequiredFields ==
    (req.endpoint = "suggestions" /\ req.method = "POST")
        => /\ pc = "awaitLLM" => Truthy(req.units)
           /\ pc = "done" =>
                /\ (~req.hasBody \/ req.units = Undef \/ req.cost = Undef)
                    => /\ res.status = 400
                       /\ res.body.error = "Missing required fields: units and cost are required"
                       /\ ~LLMCalled
                /\ LLMCalled => Truthy(req.units)
                /\ res.status = 200
                    => /\ res.body.success
                       /\ res.body.metadata.costPerUnit
                            = ToFixedString(Div(req.cost, req.units), 4)

\* C14: requests are handled statelessly: PK_DEFAULTS is never changed, the
\* notes of a response come from its own request, and two requests with
\* equal body and equal LLM reply get equal responses whatever was handled
\* before or is handled at the same time.
C14_Stateless ==
    /\ PK_DEFAULTS = PK_DEFAULTS_Literal
    /\ Contains(res.body.recommendation.notes, BudgetNote) => Positive(req.budget)
    /\ Contains(second.res.body.recommendation.notes, BudgetNote)
        => Positive(second.req.budget)
    /\ (/\ pc = "done" /\ second.pc = "done"
        /\ req = second.req /\ completion = second.completion)
            => res = second.res

\* C14 witness: two invocations with the same body and the same reply are
\* both answered with a computed recommendation, the same one.
C14_Witness ==
    /\ pc = "done" /\ second.pc = "done"
    /\ req = second.req /\ completion = second.completion
    /\ locals.branch = "compute" /\ second.locals.branch = "compute"
    /\ Contains(res.body.recommendation.notes, BudgetNote)
    /\ res.status = 200
    /\ res = second.res
    /\ PK_DEFAULTS = PK_DEFAULTS_Literal

\* C17: every 200 response to a POST of api/analyze-bill.js has success true,
\* whatever JSON value the LLM returned, and a reply that yields no usable
\* JSON is never answered 200.
C17_SuccessAlwaysTrue ==
    (/\ pc = "done" /\ req.endpoint = "analyze" /\ req.method = "POST"
     /\ res.status = 200)
        => /\ res.body.success
           /\ ReplyValue.t # "null"

====
